---- MODULE Spec2Model ----
(***************************************************************************)
(* State-machine model of main.py (smart_daily_planner): a FastAPI server  *)
(* whose handlers are all `async def` coroutines on ONE asyncio event      *)
(* loop.  A coroutine gives the loop away only at an `await`; everything   *)
(* between two awaits runs without interleaving.  The model keeps that     *)
(* scheduling explicit in the variable `running`.                          *)
(*                                                                         *)
(* An "outbound call" is counted per call site the handler executes:       *)
(* client.get / client.post, feedparser.parse, flow.fetch_token,           *)
(* ticker.info / ticker.history and service...execute().                   *)
(***************************************************************************)
EXTENDS Integers, Sequences, FiniteSets, TLC

\* ---------------------------------------------------------------- bounds
MaxSlots == 2
MaxGenres == 2
MaxHist == 2

\* ------------------------------------------------------------- constants
NewsCap == 12

Slots == 1 .. MaxSlots

\* Python's None, where the code keeps an int-or-None (genre_id, price).
None == -1

\* ----------------------------------------------------------- value domains
Chars == {"a", "A", "b", "B"}
LowerChar == [c \in Chars |-> IF c = "A" THEN "a" ELSE IF c = "B" THEN "b" ELSE c]

\* str.lower(), character by character
RECURSIVE lower(_)
lower(str) ==
    IF str = <<>> THEN <<>> ELSE <<LowerChar[Head(str)]>> \o lower(Tail(str))

\* What the movie service answers with: genre names are non-empty and genre
\* ids are positive integers (the service numbers its genres from 12 up).
GenreNames == {<<"a">>, <<"A">>, <<"b">>, <<"A", "b">>, <<"a", "b">>}
GenreIds == {1, 2, 3}
Genre == [id : GenreIds, name : GenreNames]

\* values of the `genre` query parameter; its default is the empty string
Names == GenreNames \cup {<<>>, <<"a", "B">>, <<"B">>}

RECURSIVE SeqsUpTo(_, _)
SeqsUpTo(S, n) ==
    IF n = 0 THEN {<<>>}
    ELSE LET shorter == SeqsUpTo(S, n - 1)
         IN  shorter \cup {Append(q, x) : q \in {t \in shorter : Len(t) = n - 1}, x \in S}

AllCatalogues == SeqsUpTo(Genre, MaxGenres)

Pages == {1, 2}
Teams == {<<>>, <<"a">>}

\* the requests the full server model is driven with
MainCatalogue == <<[id |-> 1, name |-> <<"A">>], [id |-> 2, name |-> <<"a", "b">>]>>
MainGenres == {<<>>, <<"a">>}
MainPages == {1}

Prices == {0, 1, 2}
Quotes == Prices \cup {None}
AllMarkets == [live : Quotes, hist : SeqsUpTo(Prices, MaxHist)]
MainMarket == [live |-> None, hist |-> <<1, 2>>]

CredValues == {"credA", "credB"}
FeedSizes == {0, 1, 12, 13}

ProxyEndpoints ==
    {"weather", "crypto", "stock", "geocode", "places", "movies", "sports", "news"}
Delegated == {"create_event", "gmail_threads", "gmail_send"}

\* endpoints whose signature has parameters without defaults
RequiresParams == {"weather", "geocode", "places", "create_event", "gmail_send"}

\* ------------------------------------------------------------------ state
VARIABLES
    tokenFile,      \* tokens/google_token.json: [exists, data]
    TMDB_API_KEY,   \* "" or a key, read from the environment at import
    tmdbGenres,     \* the genre list the movie service answers with
    market,         \* what the quote service holds for the symbol
    reqs,           \* in-flight requests, one coroutine per slot
    running,        \* slot whose coroutine holds the event loop, 0 if none
    authRequested,  \* history: /auth/google has redirected to the provider
    authDone        \* history: an /oauth2callback has written the token file

vars == <<tokenFile, TMDB_API_KEY, tmdbGenres, market, reqs, running,
          authRequested, authDone>>

NoParams == [page |-> 0, with_genres |-> None]
NoBody == [tag |-> "", n |-> 0]

Idle ==
    [ep |-> "none", pc |-> "idle", calls |-> 0, failed |-> FALSE, status |-> 0,
     body |-> NoBody, creds |-> "unset", genre |-> <<>>, page |-> 0,
     genre_id |-> None, params |-> NoParams, url |-> ""]

\* ------------------------------------------------------- credential file
\* Credentials.to_json(): the serialized credential
to_json(c) == <<"{", c, "}">>

WellFormed(data) == Len(data) = 3 /\ data[1] = "{" /\ data[3] = "}"

\* Credentials.from_authorized_user_file: parse, or raise on anything else
from_authorized_user_file(data) ==
    IF WellFormed(data) THEN data[2] ELSE "Malformed"

Absent == [exists |-> FALSE, data |-> <<>>]
Stored(c) == [exists |-> TRUE, data |-> to_json(c)]

\* ------------------------------------------------------ response helpers
Return(r, st, tag, n) ==
    [r EXCEPT !.pc = "done", !.status = st, !.body = [tag |-> tag, n |-> n]]

\* an exception leaving the handler: the framework answers 500
Raise(r) == Return(r, 500, "Internal Server Error", 0)

\* one more outbound call has been issued by the request
Called(r) == [r EXCEPT !.calls = @ + 1]

InitCommon ==
    /\ TMDB_API_KEY \in {"", "key"}
    /\ reqs = [s \in Slots |-> Idle]
    /\ running = 0
    /\ authRequested = FALSE
    /\ authDone = FALSE

\* The token file outlives the process: it may be there from an earlier run.
Init ==
    /\ InitCommon
    /\ tokenFile \in {Absent} \cup {Stored(c) : c \in CredValues}
    /\ tmdbGenres = MainCatalogue
    /\ market = MainMarket

env == <<TMDB_API_KEY, tmdbGenres, market>>



\* ------------------------------------------------------------ scheduling
Done(s) == reqs[s].pc = "done"

\* The loop is free: no coroutine is running, and no finished request is
\* waiting for its response to be taken (a finished request stays in its slot
\* only for its response to be read, and is retired before anything else runs).
Quiet == running = 0 /\ \A t \in Slots : ~Done(t)

\* A request arrives in the free slot s and its handler starts.
Arrive(s) == Quiet /\ reqs[s].pc = "idle"

\* Slot s is suspended in an await and the loop resumes it.
Resumed(s, ep, at) == Quiet /\ reqs[s].ep = ep /\ reqs[s].pc = at

New(ep) == [Idle EXCEPT !.ep = ep]

Set(s, r) == reqs' = [reqs EXCEPT ![s] = r]

\* A request that lacks a required parameter is answered 422 by the routing
\* layer and the handler never runs.
reject(s) ==
    /\ Arrive(s)
    /\ \E ep \in RequiresParams : Set(s, Return(New(ep), 422, "validation_error", 0))
    /\ UNCHANGED <<tokenFile, env, running, authRequested, authDone>>

\* The response has been sent; the slot is free again.
Retire(s) ==
    /\ running = 0
    /\ Done(s)
    /\ Set(s, Idle)
    /\ UNCHANGED <<tokenFile, env, running, authRequested, authDone>>

\* ---------------------------------------------------------- httpx helpers
\* `await client.get(url)` / `await client.post(url)`: the call is issued and
\* the coroutine is suspended until the answer arrives.
Send(s, ep, url) ==
    /\ Arrive(s)
    /\ Set(s, [Called(New(ep)) EXCEPT !.pc = "await", !.url = url])
    /\ UNCHANGED <<tokenFile, env, running, authRequested, authDone>>

\* The answer of a failed call (network error, or a non-2xx status that
\* r.raise_for_status() turns into an exception) ends the request.
Failed(r) == Raise([r EXCEPT !.failed = TRUE])

\* (variant: a failed call is issued again)
PassThroughRetry(s, ep) ==
    /\ Resumed(s, ep, "await")
    /\ \E ok \in BOOLEAN :
          Set(s, IF ok THEN Return(reqs[s], 200, "upstream_json", 0)
                       ELSE Called(reqs[s]))
    /\ UNCHANGED <<tokenFile, env, running, authRequested, authDone>>

\* r.raise_for_status(); return r.json()
PassThrough(s, ep) ==
    /\ Resumed(s, ep, "await")
    /\ \E ok \in BOOLEAN :
          Set(s, IF ok THEN Return(reqs[s], 200, "upstream_json", 0)
                       ELSE Failed(reqs[s]))
    /\ UNCHANGED <<tokenFile, env, running, authRequested, authDone>>

\* ---------------------------------------------------------------- weather
get_weather(s) == Send(s, "weather", "open-meteo/forecast")
get_weather_resume(s) == PassThrough(s, "weather")

\* ----------------------------------------------------------------- crypto
get_crypto(s) == Send(s, "crypto", "coingecko/simple/price")
get_crypto_resume(s) == PassThrough(s, "crypto")

\* ---------------------------------------------------------------- geocode
geocode(s) == Send(s, "geocode", "nominatim/search")
geocode_resume(s) == PassThrough(s, "geocode")

\* ----------------------------------------------------------------- places
places(s) == Send(s, "places", "overpass/interpreter")
places_resume(s) == PassThrough(s, "places")

\* ----------------------------------------------------------------- sports
\* `if team:` searches teams by name, else lists the league's teams; either
\* branch issues one call.
sports(s) ==
    \E team \in Teams :
        Send(s, "sports",
             IF team # <<>> THEN "searchteams.php" ELSE "search_all_teams.php")
sports_resume(s) == PassThrough(s, "sports")

\* ----------------------------------------------------------------- movies
\* (variant: the names are compared as they are, case-sensitively)
RECURSIVE find_genre_id_case_sensitive(_, _)
find_genre_id_case_sensitive(genres, genre) ==
    IF genres = <<>> THEN None
    ELSE IF Head(genres).name = genre THEN Head(genres).id
    ELSE find_genre_id_case_sensitive(Tail(genres), genre)

\* for g in genres: if g["name"].lower() == genre.lower(): genre_id = g["id"]; break
RECURSIVE find_genre_id(_, _)
find_genre_id(genres, genre) ==
    IF genres = <<>> THEN None
    ELSE IF lower(Head(genres).name) = lower(genre) THEN Head(genres).id
    ELSE find_genre_id(Tail(genres), genre)

\* Python truthiness of an int-or-None: `if genre_id:`
Truthy(x) == x # None /\ x # 0

\* params = {"api_key": ..., "page": page}; if genre_id: params["with_genres"] = genre_id
discover_params(page, genre_id) ==
    [page |-> page, with_genres |-> IF Truthy(genre_id) THEN genre_id ELSE None]

\* `if TMDB_API_KEY:` issue the genre lookup, else return the static list
movies(s, genre, page) ==
    /\ Arrive(s)
    /\ LET r == [New("movies") EXCEPT !.genre = genre, !.page = page]
       IN  IF TMDB_API_KEY # ""
           THEN Set(s, [Called(r) EXCEPT !.pc = "await_genres",
                                         !.url = "tmdb/genre/movie/list"])
           ELSE Set(s, Return(r, 200, "fallback_list", 2))
    /\ UNCHANGED <<tokenFile, env, running, authRequested, authDone>>

\* genres_r.raise_for_status(); resolve the id; issue the discovery call
movies_genres(s) ==
    /\ Resumed(s, "movies", "await_genres")
    /\ \E ok \in BOOLEAN :
          IF ok
          THEN LET gid == find_genre_id(tmdbGenres, reqs[s].genre)
               IN  Set(s, [Called(reqs[s]) EXCEPT
                             !.pc = "await_discover",
                             !.url = "tmdb/discover/movie",
                             !.genre_id = gid,
                             !.params = discover_params(reqs[s].page, gid)])
          ELSE Set(s, Failed(reqs[s]))
    /\ UNCHANGED <<tokenFile, env, running, authRequested, authDone>>

\* r.raise_for_status(); return r.json()
movies_discover(s) ==
    /\ Resumed(s, "movies", "await_discover")
    /\ \E ok \in BOOLEAN :
          Set(s, IF ok THEN Return(reqs[s], 200, "discover_json", 0)
                       ELSE Failed(reqs[s]))
    /\ UNCHANGED <<tokenFile, env, running, authRequested, authDone>>

\* ------------------------------------------------------------------- news
Min(a, b) == IF a <= b THEN a ELSE b

\* feedparser.parse(rss_url) is a blocking call that reports an unreachable
\* or failing feed in its result (bozo) with no entries instead of raising;
\* the handler reads d.entries[:12] and never looks at that report.
news(s) ==
    /\ Arrive(s)
    /\ \E ok \in BOOLEAN, n \in FeedSizes :
          LET entries == IF ok THEN n ELSE 0
              r == [Called(New("news")) EXCEPT !.failed = ~ok,
                                               !.url = "news.google.com/rss"]
          IN  Set(s, Return(r, 200, "news_items", Min(entries, NewsCap)))
    /\ UNCHANGED <<tokenFile, env, running, authRequested, authDone>>

\* ------------------------------------------------------------------ stock
\* The body of fetch_stock_price: the price it returns and the calls it makes.
fetch_stock_price(m) ==
    LET fallback == m.live = None
        price == IF ~fallback THEN m.live
                 ELSE IF m.hist # <<>> THEN m.hist[Len(m.hist)]
                 ELSE None
    IN  [price |-> price, calls |-> IF fallback THEN 2 ELSE 1]

\* fetch_stock_price is declared `async def`.
fetch_stock_price_is_coroutine_function == TRUE

\* await run_in_threadpool(fetch_stock_price, symbol): hand over to a worker
get_stock(s) ==
    /\ Arrive(s)
    /\ Set(s, [New("stock") EXCEPT !.pc = "threadpool"])
    /\ UNCHANGED <<tokenFile, env, running, authRequested, authDone>>

\* The worker thread CALLS fetch_stock_price(symbol).  Calling a coroutine
\* function only creates a coroutine object: the body does not run, nothing
\* is fetched, and the handler returns that object, which the framework
\* cannot serialise (500).  A plain function would run and return the dict.
get_stock_resume(s) ==
    /\ Resumed(s, "stock", "threadpool")
    /\ IF fetch_stock_price_is_coroutine_function
       THEN Set(s, Raise(reqs[s]))
       ELSE LET res == fetch_stock_price(market)
            IN  Set(s, Return([reqs[s] EXCEPT !.calls = res.calls],
                              200, "stock", res.price))
    /\ UNCHANGED <<tokenFile, env, running, authRequested, authDone>>


\* ------------------------------------------------------------ OAuth broker
\* The broker keeps no state of its own: its state is read off the token
\* file, and off whether a consent redirect has been handed out.
BrokerState ==
    IF tokenFile.exists THEN "Authenticated"
    ELSE IF authRequested THEN "AuthorizationRequested"
    ELSE "Unauthenticated"

\* Builds the consent URL locally and redirects; the `state` value that
\* flow.authorization_url returns is dropped (`auth_url, _ = ...`).
auth_google(s) ==
    /\ Arrive(s)
    /\ \E secrets \in BOOLEAN :
          IF secrets
          THEN /\ Set(s, Return(New("auth_google"), 302, "consent_url", 0))
               /\ authRequested' = TRUE
          ELSE /\ Set(s, Raise(New("auth_google")))
               /\ UNCHANGED authRequested
    /\ UNCHANGED <<tokenFile, env, running, authDone>>

\* (variant: the failure of the exchange is swallowed and the handler goes on)
oauth2callback_swallow(s) ==
    /\ Arrive(s)
    /\ \E secrets \in BOOLEAN, code \in {"valid", "rejected", "missing"},
          c \in CredValues :
          IF ~secrets \/ code = "missing"
          THEN /\ Set(s, Raise(New("oauth2callback")))
               /\ UNCHANGED running
          ELSE /\ Set(s, [Called(New("oauth2callback")) EXCEPT
                            !.pc = "open", !.failed = (code = "rejected"),
                            !.creds = IF code = "valid" THEN c ELSE "None"])
               /\ running' = s
    /\ UNCHANGED <<tokenFile, env, authRequested, authDone>>

\* A fresh Flow (nothing ties it to an earlier /auth/google), then
\* flow.fetch_token(authorization_response=full_url): a blocking call, so the
\* coroutine keeps the loop.  Without a code in the URL, or when the exchange
\* fails, the exception leaves the handler here.
oauth2callback(s) ==
    /\ Arrive(s)
    /\ \E secrets \in BOOLEAN, code \in {"valid", "rejected", "missing"},
          c \in CredValues :
          IF ~secrets \/ code = "missing"
          THEN /\ Set(s, Raise(New("oauth2callback")))
               /\ UNCHANGED running
          ELSE IF code = "rejected"
          THEN /\ Set(s, Failed(Called(New("oauth2callback"))))
               /\ UNCHANGED running
          ELSE /\ Set(s, [Called(New("oauth2callback")) EXCEPT
                            !.pc = "open", !.creds = c])
               /\ running' = s
    /\ UNCHANGED <<tokenFile, env, authRequested, authDone>>

\* (variant: the file is opened for appending)
oauth2callback_open_append(s) ==
    /\ running = s
    /\ reqs[s].ep = "oauth2callback" /\ reqs[s].pc = "open"
    /\ tokenFile' = [tokenFile EXCEPT !.exists = TRUE]
    /\ Set(s, [reqs[s] EXCEPT !.pc = "write"])
    /\ UNCHANGED <<env, running, authRequested, authDone>>

\* (variant: the coroutine gives the loop away between open and write)
oauth2callback_open_yield(s) ==
    /\ running = s
    /\ reqs[s].ep = "oauth2callback" /\ reqs[s].pc = "open"
    /\ tokenFile' = [exists |-> TRUE, data |-> <<>>]
    /\ Set(s, [reqs[s] EXCEPT !.pc = "write"])
    /\ running' = 0
    /\ UNCHANGED <<env, authRequested, authDone>>

\* open(token_path, "w"): creates the file or truncates it to nothing; there
\* is no await in the `with` block, so the loop stays with this coroutine
oauth2callback_open(s) ==
    /\ running = s
    /\ reqs[s].ep = "oauth2callback" /\ reqs[s].pc = "open"
    /\ tokenFile' = [exists |-> TRUE, data |-> <<>>]
    /\ Set(s, [reqs[s] EXCEPT !.pc = "write"])
    /\ UNCHANGED <<env, running, authRequested, authDone>>

\* f.write(creds.to_json()), the file is closed, and the redirect is returned
oauth2callback_write(s) ==
    /\ running = s
    /\ reqs[s].ep = "oauth2callback" /\ reqs[s].pc = "write"
    /\ tokenFile' = [tokenFile EXCEPT !.data = @ \o to_json(reqs[s].creds)]
    /\ Set(s, Return(reqs[s], 302, "/?auth=ok", 0))
    /\ running' = 0
    /\ authDone' = TRUE
    /\ UNCHANGED <<env, authRequested>>

\* ------------------------------------------------------- credential store
\* (variant: the existence check looks at another path)
load_google_creds_wrong_path(s) ==
    /\ Arrive(s)
    /\ \E ep \in Delegated :
          Set(s, [New(ep) EXCEPT !.pc = "check", !.creds = "None"])
    /\ running' = s
    /\ UNCHANGED <<tokenFile, env, authRequested, authDone>>

\* if not os.path.exists(token_path): return None.  Each delegated handler
\* calls it first thing; there is no await anywhere in those handlers.
load_google_creds(s) ==
    /\ Arrive(s)
    /\ \E ep \in Delegated :
          IF tokenFile.exists
          THEN Set(s, [New(ep) EXCEPT !.pc = "read"])
          ELSE Set(s, [New(ep) EXCEPT !.pc = "check", !.creds = "None"])
    /\ running' = s
    /\ UNCHANGED <<tokenFile, env, authRequested, authDone>>

\* return Credentials.from_authorized_user_file(token_path, scopes=SCOPES)
load_google_creds_read(s) ==
    /\ running = s
    /\ reqs[s].ep \in Delegated /\ reqs[s].pc = "read"
    /\ LET c == from_authorized_user_file(tokenFile.data)
       IN  IF c = "Malformed"
           THEN /\ Set(s, Raise([reqs[s] EXCEPT !.creds = c]))
                /\ running' = 0
           ELSE /\ Set(s, [reqs[s] EXCEPT !.pc = "check", !.creds = c])
                /\ UNCHANGED running
    /\ UNCHANGED <<tokenFile, env, authRequested, authDone>>

\* ------------------------------------------------------- delegated access
\* (variant: the `if not creds` test is missing)
DelegatedCallUnchecked(s, ep, tag) ==
    /\ running = s
    /\ reqs[s].ep = ep /\ reqs[s].pc = "check"
    /\ \E ok \in BOOLEAN :
          Set(s, IF ok THEN Return(Called(reqs[s]), 200, tag, 0)
                       ELSE Failed(Called(reqs[s])))
    /\ running' = 0
    /\ UNCHANGED <<tokenFile, env, authRequested, authDone>>

\* if not creds: 401 {"error": "not_authenticated"}; else build the service
\* and execute one request against the provider (a blocking call).
DelegatedCall(s, ep, tag) ==
    /\ running = s
    /\ reqs[s].ep = ep /\ reqs[s].pc = "check"
    /\ IF reqs[s].creds = "None"
       THEN Set(s, Return(reqs[s], 401, "not_authenticated", 0))
       ELSE \E ok \in BOOLEAN :
               Set(s, IF ok THEN Return(Called(reqs[s]), 200, tag, 0)
                            ELSE Failed(Called(reqs[s])))
    /\ running' = 0
    /\ UNCHANGED <<tokenFile, env, authRequested, authDone>>

create_event(s) == DelegatedCall(s, "create_event", "event_resource")
gmail_threads(s) == DelegatedCall(s, "gmail_threads", "thread_list")
gmail_send(s) == DelegatedCall(s, "gmail_send", "send_confirmation")

\* ------------------------------------------------------------ the server
movies_main(s) == \E genre \in MainGenres, page \in MainPages : movies(s, genre, page)

\* what the loop does for a request that is already in flight
Continue(s) ==
    \/ Retire(s)
    \/ get_weather_resume(s)
    \/ get_crypto_resume(s)
    \/ get_stock_resume(s)
    \/ geocode_resume(s)
    \/ places_resume(s)
    \/ movies_genres(s)
    \/ movies_discover(s)
    \/ sports_resume(s)
    \/ oauth2callback_open(s)
    \/ oauth2callback_write(s)
    \/ load_google_creds_read(s)
    \/ create_event(s)
    \/ gmail_threads(s)
    \/ gmail_send(s)

Next ==
    \E s \in Slots :
        \/ reject(s)
        \/ Retire(s)
        \/ get_weather(s)
        \/ get_weather_resume(s)
        \/ get_crypto(s)
        \/ get_crypto_resume(s)
        \/ get_stock(s)
        \/ get_stock_resume(s)
        \/ geocode(s)
        \/ geocode_resume(s)
        \/ places(s)
        \/ places_resume(s)
        \/ movies_main(s)
        \/ movies_genres(s)
        \/ movies_discover(s)
        \/ sports(s)
        \/ sports_resume(s)
        \/ news(s)
        \/ auth_google(s)
        \/ oauth2callback(s)
        \/ oauth2callback_open(s)
        \/ oauth2callback_write(s)
        \/ load_google_creds(s)
        \/ load_google_creds_read(s)
        \/ create_event(s)
        \/ gmail_threads(s)
        \/ gmail_send(s)

Spec == Init /\ [][Next]_vars

\* The event loop keeps running the coroutines it has: a request in flight is
\* eventually continued.  Nothing obliges a new request to arrive.
FairSpec == Spec /\ \A s \in Slots : WF_vars(Continue(s))


\* ------------------------------------------- /api/movies on its own inputs
MoviesInit ==
    /\ InitCommon
    /\ tokenFile = Absent
    /\ tmdbGenres \in AllCatalogues
    /\ market = MainMarket

movies_any(s) == \E genre \in Names, page \in Pages : movies(s, genre, page)

MoviesNext ==
    \/ movies_any(1)
    \/ movies_genres(1)
    \/ movies_discover(1)
    \/ Retire(1)

MoviesSpec == MoviesInit /\ [][MoviesNext]_vars

\* -------------------------------------------- /api/stock on its own inputs
StockInit ==
    /\ InitCommon
    /\ tokenFile = Absent
    /\ tmdbGenres = MainCatalogue
    /\ market \in AllMarkets

StockNext ==
    \/ get_stock(1)
    \/ get_stock_resume(1)
    \/ Retire(1)

StockSpec == StockInit /\ [][StockNext]_vars

\* ================================================================== claims
NotAuthenticated == [tag |-> "not_authenticated", n |-> 0]

\* C1: a delegated-access endpoint (create_event, gmail_threads, gmail_send)
\* whose handler runs while no credential is stored answers 401 with
\* {error: "not_authenticated"}, has made no outbound call, and the credential
\* store is still absent; and a handler that runs with the store absent takes
\* exactly that path.
C1_NotAuthenticated ==
    \A s \in Slots :
        reqs[s].ep \in Delegated =>
            /\ reqs[s].creds = "None" =>
                  /\ ~tokenFile.exists
                  /\ reqs[s].calls = 0
                  /\ \/ reqs[s].pc = "check"
                     \/ Done(s) /\ reqs[s].status = 401 /\ reqs[s].body = NotAuthenticated
            /\ (~tokenFile.exists /\ reqs[s].status # 422) => reqs[s].creds = "None"

C1_Witness ==
    \E s \in Slots :
        /\ reqs[s].ep \in Delegated /\ Done(s)
        /\ reqs[s].status = 401 /\ reqs[s].calls = 0 /\ ~tokenFile.exists

\* C2: once an oauth2callback has completed successfully the credential is
\* stored (the file exists and holds a complete credential whenever no handler
\* is in the middle of rewriting it), and every delegated-access handler that
\* runs afterwards loads a credential, passes the `if not creds` check and
\* reaches the provider call: it never answers not_authenticated.
C2_AuthenticatedAfterCallback ==
    authDone =>
        /\ tokenFile.exists
        /\ running = 0 => WellFormed(tokenFile.data)
        /\ \A s \in Slots :
              (reqs[s].ep \in Delegated /\ reqs[s].status # 422) =>
                  /\ reqs[s].creds \in CredValues \cup {"unset"}
                  /\ reqs[s].status # 401
                  /\ Done(s) => reqs[s].calls = 1

C2_Witness ==
    /\ authDone
    /\ \E s \in Slots :
          /\ reqs[s].ep \in Delegated /\ Done(s)
          /\ reqs[s].status = 200 /\ reqs[s].calls = 1
          /\ tokenFile = Stored(reqs[s].creds)

\* C3: when the code exchange of oauth2callback fails, or the callback carries
\* no usable code, the request ends there with a server error, the token file
\* is exactly what it was (absent stays absent, a stored credential stays the
\* same) and the broker state does not change: it does not become Authenticated
\* through this request.
C3_FailedExchange ==
    [][\A s \in Slots :
          /\ (reqs'[s].ep = "oauth2callback" /\ reqs'[s].failed /\ ~reqs[s].failed) =>
                /\ reqs'[s].pc = "done" /\ reqs'[s].status = 500
                /\ tokenFile' = tokenFile
                /\ BrokerState' = BrokerState
          /\ (reqs'[s].ep = "oauth2callback" /\ reqs'[s].status = 500
                /\ reqs[s].status # 500) =>
                /\ tokenFile' = tokenFile
                /\ BrokerState' = BrokerState]_vars

C3_Witness ==
    \E s \in Slots :
        /\ reqs[s].ep = "oauth2callback" /\ Done(s)
        /\ reqs[s].failed /\ reqs[s].status = 500
        /\ BrokerState = "AuthorizationRequested"

\* C4: the broker moves Unauthenticated -> AuthorizationRequested ->
\* Authenticated: no step takes it from Unauthenticated straight to
\* Authenticated (a credential is persisted only after an auth_google).
C4_ThreeStateOrder ==
    [][BrokerState = "Unauthenticated" => BrokerState' # "Authenticated"]_vars

\* what the claim C5 expects of the discovery call: the id of the first genre
\* whose name equals the parameter, case-insensitively, and no filter if none
MatchingGenres(genres, genre) ==
    {i \in 1 .. Len(genres) : lower(genres[i].name) = lower(genre)}

ExpectedFilter(genres, genre) ==
    LET m == MatchingGenres(genres, genre)
    IN  IF m = {} THEN None
        ELSE genres[CHOOSE i \in m : \A j \in m : i <= j].id

ExpectedPrice(m) ==
    IF m.live # None THEN m.live
    ELSE IF m.hist # <<>> THEN m.hist[Len(m.hist)]
    ELSE None

\* C6: /api/stock answers 200 with the live quote when there is one, else the
\* most recent daily close when there is history, else a null price; history
\* is consulted only when the live quote is absent.
C6_StockPrice ==
    \A s \in Slots :
        (reqs[s].ep = "stock" /\ Done(s)) =>
            /\ reqs[s].status = 200
            /\ reqs[s].body = [tag |-> "stock", n |-> ExpectedPrice(market)]
            /\ reqs[s].calls = 2 => market.live = None

\* C7: no upstream call is retried and a failed upstream call fails the whole
\* request: a proxy request one of whose outbound calls failed has ended, in an
\* error response, without a further call (for /api/movies: a failed genre
\* lookup means no discovery call).
C7_FailedUpstreamFailsRequest ==
    \A s \in Slots :
        (reqs[s].ep \in ProxyEndpoints /\ reqs[s].failed) =>
            /\ Done(s)
            /\ reqs[s].status = 500
            /\ reqs[s].url = "tmdb/genre/movie/list" => reqs[s].calls = 1

\* C8 as stated: every request, on every endpoint and path, makes zero or one
\* outbound calls.
C8_AtMostOneCall == \A s \in Slots : reqs[s].calls <= 1

\* C8 amended: every request makes zero or one outbound calls, except
\* /api/movies with a key configured, which makes two (the genre lookup, then
\* the discovery call) whenever the lookup succeeds; no request makes more.
C8_AtMostTwoCalls ==
    \A s \in Slots :
        /\ reqs[s].calls <= 2
        /\ reqs[s].calls = 2 =>
              /\ reqs[s].ep = "movies" /\ TMDB_API_KEY # ""
              /\ reqs[s].url = "tmdb/discover/movie"
        /\ (reqs[s].ep = "movies" /\ reqs[s].url = "tmdb/discover/movie") =>
              reqs[s].calls = 2

C8_Witness ==
    \E s \in Slots :
        /\ reqs[s].ep = "movies" /\ Done(s)
        /\ reqs[s].status = 200 /\ reqs[s].calls = 2

PartialFile == tokenFile.exists /\ ~WellFormed(tokenFile.data)

PartialObserved == \E s \in Slots : reqs[s].creds = "Malformed"

CredentialWritten ==
    \E s \in Slots : reqs[s].ep = "oauth2callback" /\ Done(s) /\ reqs[s].status = 302

CredentialRead ==
    \E s \in Slots :
        reqs[s].ep \in Delegated /\ reqs[s].pc = "check" /\ reqs[s].creds \in CredValues

C10_OnlyCallbackWrites ==
    [][/\ tokenFile' # tokenFile =>
             \E s \in Slots :
                 /\ running = s
                 /\ reqs[s].ep = "oauth2callback"
                 /\ reqs[s].pc \in {"open", "write"}
                 /\ reqs[s].calls = 1 /\ ~reqs[s].failed
                 /\ reqs[s].creds \in CredValues
       /\ tokenFile.exists => tokenFile'.exists
       /\ \A s \in Slots :
             (reqs[s].pc = "write" /\ reqs'[s].pc = "done") =>
                 tokenFile' = Stored(reqs[s].creds)]_vars

C10_Witness ==
    \E s \in Slots :
        /\ reqs[s].ep = "oauth2callback" /\ reqs[s].pc = "open"
        /\ authDone
        /\ tokenFile.exists /\ tokenFile # Stored(reqs[s].creds)
        /\ \E t \in Slots : reqs[t].ep \in ProxyEndpoints /\ reqs[t].pc # "idle"

====
